---- MODULE Spec2Model ----
(***************************************************************************)
(* Model of task.py: the day-window filter, the client/server inner join,  *)
(* the exclusion of banned players and the write of the result table.      *)
(*                                                                         *)
(* A data frame or a database table is a record [cols, rows]: cols is the  *)
(* set of column names, rows a sequence of functions from cols to values.  *)
(* Calendar datetimes without a time zone ("naive") are numbers of seconds *)
(* counted on the wall clock from 1970-01-01 00:00:00.                     *)
(***************************************************************************)
EXTENDS Integers, Sequences, FiniteSets, TLC

VARIABLES
    clientCsv,     \* contents of the file args.client_csv
    serverCsv,     \* contents of the file args.server_csv
    store,         \* the sqlite database args.db_name: table name -> table
    tz,            \* the local time zone of the process
    args,          \* the parsed command line
    pc,            \* position of the process in __main__ / manipulation_with_data
    err,           \* the exception that ended the run, "" when none
    run,           \* number of the current invocation
    clientDf,      \* get_dataframe_for_date(client_csv, date)
    serverDf,      \* get_dataframe_for_date(server_csv, date)
    joined,        \* join_frames(...)
    excluded,      \* exclude_cheaters(...)
    dfSql,         \* df_sql after rename and drop
    storeAtStart,  \* history: the database when the current invocation started
    history        \* history: one record per finished invocation

vars == <<clientCsv, serverCsv, store, tz, args, pc, err, run, clientDf,
          serverDf, joined, excluded, dfSql, storeAtStart, history>>

----------------------------------------------------------------------------
(* Bounds of the model. *)

WindowRows == 2      \* client rows in SpecWindow
WindowServerRows == 1  \* server rows in SpecWindow
JoinRows == 2        \* rows per file in SpecJoin
ExclRows == 2        \* client rows in SpecExclude
ExclServerRows == 1  \* server rows in SpecExclude
MaxBans == 2         \* rows of the ban table in SpecExclude
PipeRows == 1        \* rows per file and ban rows in Spec
MaxRuns == 2         \* invocations of the program

SecondsPerDay == 86400

----------------------------------------------------------------------------
(* Data frames. *)

EmptyDf == [cols |-> {}, rows |-> <<>>]

NoTable == [exists |-> FALSE, cols |-> {}, rows |-> <<>>]

NaN == "NaN"

RECURSIVE ConcatAll(_)
ConcatAll(ss) ==
    IF Len(ss) = 0 THEN <<>> ELSE Head(ss) \o ConcatAll(Tail(ss))

Restrict(row, cols) == [c \in cols |-> row[c]]

(* Number of rows of a sequence equal to row. *)
Count(rows, row) == Cardinality({i \in 1..Len(rows) : rows[i] = row})

Matches(l, r, on) == \A c \in on : l[c] = r[c]

----------------------------------------------------------------------------
(* Time conversions. *)

(* The UTC offset, in seconds, that the zone applies to a wall-clock time:
   zone.before until the wall clock reaches zone.switch, zone.after from then. *)
UtcOffset(zone, naive) ==
    IF naive < zone.switch THEN zone.before ELSE zone.after

(* datetime.timestamp() of a naive datetime: the wall-clock time is read in
   the local time zone. *)
LocalTimestamp(naive, zone) == naive - UtcOffset(zone, naive)

(* pd.to_datetime of the text of a ban_time cell: a naive datetime. *)
ToDatetime(text) ==
    CASE text = "1970-01-01 00:08:20" -> 500
      [] text = "1970-01-01 00:16:45" -> 1005
      [] text = "1970-01-01 00:33:20" -> 2000

(* pandas' Timestamp.timestamp() of a naive Timestamp: the wall-clock time is
   read as UTC, whatever the local zone. *)
PandasTimestamp(naive) == naive

----------------------------------------------------------------------------
(* get_dataframe_for_date *)

InWindowClosed(t, start_timestamp, end_timestamp) ==
    start_timestamp <= t /\ t <= end_timestamp

InWindow(t, start_timestamp, end_timestamp) ==
    start_timestamp <= t /\ t < end_timestamp

GetDataframeForDate(csv_data, date_csv, zone, time_column_name) ==
    LET start_timestamp == LocalTimestamp(date_csv, zone)
        end_timestamp == LocalTimestamp(date_csv + SecondsPerDay, zone)
    IN  [cols |-> csv_data.cols,
         rows |-> SelectSeq(csv_data.rows,
                     LAMBDA r : InWindow(r[time_column_name],
                                         start_timestamp, end_timestamp))]

----------------------------------------------------------------------------
(* pd.merge *)

OutName(c, overlap, suffix) == IF c \in overlap THEN c \o suffix ELSE c

MergedCols(lcols, rcols, on, sl, sr) ==
    LET overlap == (lcols \cap rcols) \ on
    IN  on \cup {OutName(c, overlap, sl) : c \in lcols \ on}
           \cup {OutName(c, overlap, sr) : c \in rcols \ on}

(* One output row of a merge: the key columns, then the left and the right
   columns, the names both sides share suffixed. *)
CombineRow(l, r, lcols, rcols, on, sl, sr) ==
    LET overlap == (lcols \cap rcols) \ on
        fromLeft(n) == {c \in lcols \ on : OutName(c, overlap, sl) = n}
        fromRight(n) == {c \in rcols \ on : OutName(c, overlap, sr) = n}
    IN  [n \in MergedCols(lcols, rcols, on, sl, sr) |->
            IF n \in on THEN l[n]
            ELSE IF fromLeft(n) # {} THEN l[CHOOSE c \in fromLeft(n) : TRUE]
            ELSE r[CHOOSE c \in fromRight(n) : TRUE]]

(* A join that keeps, for each left row, only its first match. *)
MergeInnerFirstMatch(left, right, on, sl, sr) ==
    [cols |-> MergedCols(left.cols, right.cols, on, sl, sr),
     rows |-> ConcatAll([i \in 1..Len(left.rows) |->
                 LET m == SelectSeq(right.rows,
                              LAMBDA r : Matches(left.rows[i], r, on))
                 IN  IF Len(m) = 0 THEN <<>>
                     ELSE <<CombineRow(left.rows[i], m[1], left.cols,
                                       right.cols, on, sl, sr)>>])]

(* merge(how='inner'): every pair of a left and a right row that agree on the
   key columns, in the order of the left rows. *)
MergeInner(left, right, on, sl, sr) ==
    [cols |-> MergedCols(left.cols, right.cols, on, sl, sr),
     rows |-> ConcatAll([i \in 1..Len(left.rows) |->
                 LET m == SelectSeq(right.rows,
                              LAMBDA r : Matches(left.rows[i], r, on))
                 IN  [j \in 1..Len(m) |->
                        CombineRow(left.rows[i], m[j], left.cols,
                                   right.cols, on, sl, sr)]])]

(* merge(how='left', indicator=True) with no key given: the key is every
   column the two frames share. A left row without a match is kept once, its
   right-only columns NaN, marked left_only; a left row with matches gives
   one row per match, marked both. *)
MergeLeftIndicator(left, right) ==
    LET on == left.cols \cap right.cols
        cols == left.cols \cup right.cols \cup {"_merge"}
        out(l, r, mark) ==
            [n \in cols |->
                IF n = "_merge" THEN mark
                ELSE IF n \in left.cols THEN l[n]
                ELSE IF mark = "both" THEN r[n] ELSE NaN]
    IN  [cols |-> cols,
         rows |-> ConcatAll([i \in 1..Len(left.rows) |->
                     LET m == SelectSeq(right.rows,
                                  LAMBDA r : Matches(left.rows[i], r, on))
                     IN  IF Len(m) = 0
                         THEN <<out(left.rows[i], left.rows[i], "left_only")>>
                         ELSE [j \in 1..Len(m) |->
                                 out(left.rows[i], m[j], "both")]])]

(* DataFrame.drop(c, axis=1) *)
DropColumn(df, c) ==
    [cols |-> df.cols \ {c},
     rows |-> [i \in 1..Len(df.rows) |-> Restrict(df.rows[i], df.cols \ {c})]]

(* DataFrame.rename(columns=mapping): a name the frame lacks is passed over. *)
Rename(df, mapping) ==
    LET new(c) == IF c \in DOMAIN mapping THEN mapping[c] ELSE c
        cols == {new(c) : c \in df.cols}
    IN  [cols |-> cols,
         rows |-> [i \in 1..Len(df.rows) |->
                     [n \in cols |->
                        df.rows[i][CHOOSE c \in df.cols : new(c) = n]]]]

----------------------------------------------------------------------------
(* join_frames *)

JoinFramesDf(client_df, server_df, column_name) ==
    MergeInner(client_df, server_df, {column_name}, "_client", "_server")

----------------------------------------------------------------------------
(* exclude_cheaters *)

(* The ban table with its time column turned from text to epoch seconds. *)
CheatersDf(table, time_column_table) ==
    [cols |-> table.cols,
     rows |-> [i \in 1..Len(table.rows) |->
                 [table.rows[i] EXCEPT
                     ![time_column_table] = PandasTimestamp(ToDatetime(@))]]]

StaleMatchOrEqual(row, time_column_df, time_column_table) ==
    row[time_column_df] <= row[time_column_table]

(* The condition that selects the pairs (event, ban) to strike out. *)
StaleMatch(row, time_column_df, time_column_table) ==
    row[time_column_df] < row[time_column_table]

(* The rows of df_to_exclude paired with a ban row of the same exclude_column
   value whose time is later than the row's, the ban time column dropped. *)
CheatersToExclude(df_to_exclude, cheaters_df, exclude_column, time_column_df, time_column_table) ==
    LET merged == MergeInner(df_to_exclude, cheaters_df, {exclude_column},
                             "_x", "_y")
        stale == [cols |-> merged.cols,
                  rows |-> SelectSeq(merged.rows,
                              LAMBDA r : StaleMatch(r, time_column_df,
                                                    time_column_table))]
    IN  DropColumn(stale, time_column_table)

(* A left merge whose matched rows are kept. *)
AntiJoinKeepBoth(df_to_exclude, cheaters_to_exclude) ==
    DropColumn(MergeLeftIndicator(df_to_exclude, cheaters_to_exclude), "_merge")

(* The left merge with indicator, its left_only rows, the indicator dropped. *)
AntiJoin(df_to_exclude, cheaters_to_exclude) ==
    LET result_df == MergeLeftIndicator(df_to_exclude, cheaters_to_exclude)
        left_only == [cols |-> result_df.cols,
                      rows |-> SelectSeq(result_df.rows,
                                  LAMBDA r : r["_merge"] = "left_only")]
    IN  DropColumn(left_only, "_merge")

(* The exception exclude_cheaters raises, "" when it returns. *)
ExcludeCheatersError(df_to_exclude, db, cheaters_table, exclude_column, time_column_df, time_column_table) ==
    LET table == db[cheaters_table]
        merged_cols == MergedCols(df_to_exclude.cols, table.cols,
                                  {exclude_column}, "_x", "_y")
    IN  IF ~table.exists THEN "DatabaseError"
        ELSE IF time_column_table \notin table.cols THEN "KeyError"
        ELSE IF exclude_column \notin df_to_exclude.cols
                \/ exclude_column \notin table.cols THEN "KeyError"
        ELSE IF time_column_df \notin merged_cols
                \/ time_column_table \notin merged_cols THEN "KeyError"
        ELSE ""

ExcludeCheatersDf(df_to_exclude, db, cheaters_table, exclude_column, time_column_df, time_column_table) ==
    LET cheaters_df == CheatersDf(db[cheaters_table], time_column_table)
    IN  AntiJoin(df_to_exclude,
                 CheatersToExclude(df_to_exclude, cheaters_df, exclude_column,
                                   time_column_df, time_column_table))

----------------------------------------------------------------------------
(* manipulation_with_data: the projection and the write *)

RenameMap ==
    [description_client |-> "json_client",
     description_server |-> "json_server",
     timestamp_server |-> "timestamp"]

(* to_sql that appends to a table of the frame's columns it finds. *)
ToSqlAppend(old, df) ==
    IF old.exists /\ old.cols = df.cols
    THEN [exists |-> TRUE, cols |-> df.cols, rows |-> old.rows \o df.rows]
    ELSE [exists |-> TRUE, cols |-> df.cols, rows |-> df.rows]

(* to_sql(index=False, if_exists='replace'): the table found is dropped, and
   a table of the frame's own columns is created and filled. *)
ToSqlReplace(old, df) ==
    [exists |-> TRUE, cols |-> df.cols, rows |-> df.rows]

(* The columns of CREATE TABLE IF NOT EXISTS. *)
CreatedCols ==
    {"id", "timestamp", "player_id", "event_id", "error_id", "json_server",
     "json_client"}

----------------------------------------------------------------------------
(* The steps of one invocation. *)

Fail(e) ==
    /\ pc' = "failed"
    /\ err' = e

(* create_sql_table(args.db_name, args.new_table) *)
CreateSqlTable ==
    /\ pc = "start"
    /\ store' = IF store[args.new_table].exists THEN store
                ELSE [store EXCEPT ![args.new_table] =
                        [exists |-> TRUE, cols |-> CreatedCols, rows |-> <<>>]]
    /\ pc' = "created"
    /\ UNCHANGED <<clientCsv, serverCsv, tz, args, err, run, clientDf,
                   serverDf, joined, excluded, dfSql, storeAtStart, history>>

(* get_dataframe_for_date(client_csv, date) *)
LoadClient ==
    /\ pc = "created"
    /\ IF "timestamp" \in clientCsv.cols
       THEN /\ clientDf' = GetDataframeForDate(clientCsv, args.date, tz,
                                               "timestamp")
            /\ pc' = "client"
            /\ err' = err
       ELSE /\ Fail("KeyError")
            /\ clientDf' = clientDf
    /\ UNCHANGED <<clientCsv, serverCsv, store, tz, args, run, serverDf,
                   joined, excluded, dfSql, storeAtStart, history>>

(* The server file read without the day filter. *)
LoadServerUnfiltered ==
    /\ pc = "client"
    /\ serverDf' = serverCsv
    /\ pc' = "server"
    /\ UNCHANGED <<clientCsv, serverCsv, store, tz, args, err, run, clientDf,
                   joined, excluded, dfSql, storeAtStart, history>>

(* get_dataframe_for_date(server_csv, date) *)
LoadServer ==
    /\ pc = "client"
    /\ IF "timestamp" \in serverCsv.cols
       THEN /\ serverDf' = GetDataframeForDate(serverCsv, args.date, tz,
                                               "timestamp")
            /\ pc' = "server"
            /\ err' = err
       ELSE /\ Fail("KeyError")
            /\ serverDf' = serverDf
    /\ UNCHANGED <<clientCsv, serverCsv, store, tz, args, run, clientDf,
                   joined, excluded, dfSql, storeAtStart, history>>

(* join_frames(client_df, server_df, join_column) *)
JoinFrames ==
    /\ pc = "server"
    /\ IF args.join_column \in clientDf.cols
          /\ args.join_column \in serverDf.cols
       THEN /\ joined' = JoinFramesDf(clientDf, serverDf, args.join_column)
            /\ pc' = "joined"
            /\ err' = err
       ELSE /\ Fail("KeyError")
            /\ joined' = joined
    /\ UNCHANGED <<clientCsv, serverCsv, store, tz, args, run, clientDf,
                   serverDf, excluded, dfSql, storeAtStart, history>>

(* exclude_cheaters(joined, db_name, cheaters_table, exclude_column,
   time_column_df, time_column_table) *)
ExcludeCheaters ==
    /\ pc = "joined"
    /\ LET e == ExcludeCheatersError(joined, store, args.cheaters_table,
                    args.exclude_column, args.time_column_df,
                    args.time_column_table)
       IN  IF e = ""
           THEN /\ excluded' = ExcludeCheatersDf(joined, store,
                                   args.cheaters_table, args.exclude_column,
                                   args.time_column_df, args.time_column_table)
                /\ pc' = "excluded"
                /\ err' = err
           ELSE /\ Fail(e)
                /\ excluded' = excluded
    /\ UNCHANGED <<clientCsv, serverCsv, store, tz, args, run, clientDf,
                   serverDf, joined, dfSql, storeAtStart, history>>

(* df_sql = excluded.rename(...); df_sql = df_sql.drop('timestamp_client') *)
Project ==
    /\ pc = "excluded"
    /\ LET renamed == Rename(excluded, RenameMap)
       IN  IF "timestamp_client" \in renamed.cols
           THEN /\ dfSql' = DropColumn(renamed, "timestamp_client")
                /\ pc' = "projected"
                /\ err' = err
           ELSE /\ Fail("KeyError")
                /\ dfSql' = dfSql
    /\ UNCHANGED <<clientCsv, serverCsv, store, tz, args, run, clientDf,
                   serverDf, joined, excluded, storeAtStart, history>>

(* df_sql.to_sql(new_table, conn, index=False, if_exists='replace') *)
ToSql ==
    /\ pc = "projected"
    /\ store' = [store EXCEPT ![args.new_table] = ToSqlReplace(@, dfSql)]
    /\ pc' = "done"
    /\ UNCHANGED <<clientCsv, serverCsv, tz, args, err, run, clientDf,
                   serverDf, joined, excluded, dfSql, storeAtStart, history>>

(* The program is started again with the same command line and files. *)
Rerun ==
    /\ pc \in {"done", "failed"}
    /\ run < MaxRuns
    /\ run' = run + 1
    /\ history' = Append(history, [before |-> storeAtStart, after |-> store,
                                   ok |-> (pc = "done")])
    /\ storeAtStart' = store
    /\ pc' = "start"
    /\ err' = ""
    /\ clientDf' = EmptyDf
    /\ serverDf' = EmptyDf
    /\ joined' = EmptyDf
    /\ excluded' = EmptyDf
    /\ dfSql' = EmptyDf
    /\ UNCHANGED <<clientCsv, serverCsv, store, tz, args>>

Next ==
    \/ CreateSqlTable
    \/ LoadClient
    \/ LoadServer
    \/ JoinFrames
    \/ ExcludeCheaters
    \/ Project
    \/ ToSql
    \/ Rerun

----------------------------------------------------------------------------
(* The inputs of an invocation. *)

(* Time zones: UTC, a fixed offset of one hour, and two zones whose offset
   changes by one hour at 02:00 of the target day. *)
Utc == [before |-> 0, after |-> 0, switch |-> 0]
PlusOne == [before |-> 3600, after |-> 3600, switch |-> 0]
SpringForward == [before |-> 0, after |-> 3600, switch |-> 7200]
FallBack == [before |-> 3600, after |-> 0, switch |-> 7200]

(* The columns of the two files: "task" has the player in the client file
   and the event in the server file, "full" has both in both files, "nodesc"
   is "task" with no description in the client file. *)
ClientCols(schema) ==
    CASE schema = "task" -> {"timestamp", "player_id", "error_id", "description"}
      [] schema = "full" -> {"timestamp", "player_id", "event_id", "error_id",
                             "description"}
      [] schema = "nodesc" -> {"timestamp", "player_id", "error_id"}

ServerCols(schema) ==
    CASE schema = "task" -> {"timestamp", "event_id", "error_id", "description"}
      [] schema = "full" -> {"timestamp", "player_id", "event_id", "error_id",
                             "description"}
      [] schema = "nodesc" -> {"timestamp", "event_id", "error_id", "description"}

EventRec(ts, pid, eid, desc) ==
    [timestamp |-> ts, player_id |-> pid, event_id |-> 1, error_id |-> eid,
     description |-> desc]

BanRec(pid, text) == [player_id |-> pid, ban_time |-> text]

BanTimeTexts ==
    {"1970-01-01 00:08:20", "1970-01-01 00:16:45", "1970-01-01 00:33:20"}

(* The sequences of at most n elements of S. *)
SeqsUpTo(S, n) == UNION {[1..k -> S] : k \in 0..n}

File(cols, recs) ==
    [cols |-> cols, rows |-> [i \in 1..Len(recs) |-> Restrict(recs[i], cols)]]

Args(new_table) ==
    [join_column |-> "error_id", date |-> 0, cheaters_table |-> "cheaters",
     exclude_column |-> "player_id", time_column_df |-> "timestamp_server",
     time_column_table |-> "ban_time", new_table |-> new_table]

InitWith(schemas, clientRecs, serverRecs, banRecs, zones, newTables) ==
    /\ \E schema \in schemas, c \in clientRecs, s \in serverRecs :
          /\ clientCsv = File(ClientCols(schema), c)
          /\ serverCsv = File(ServerCols(schema), s)
    /\ \E b \in banRecs :
          store = [t \in {"cheaters", "task_table"} |->
                     IF t = "cheaters"
                     THEN [exists |-> TRUE, cols |-> {"player_id", "ban_time"},
                           rows |-> b]
                     ELSE NoTable]
    /\ tz \in zones
    /\ \E nt \in newTables : args = Args(nt)
    /\ pc = "start"
    /\ err = ""
    /\ run = 1
    /\ clientDf = EmptyDf
    /\ serverDf = EmptyDf
    /\ joined = EmptyDf
    /\ excluded = EmptyDf
    /\ dfSql = EmptyDf
    /\ storeAtStart = store
    /\ history = <<>>

(* The i-th line of a file carries a description of its own. *)
Numbered(prefix, i) == prefix \o ToString(i)

(* Spec: the whole pipeline over the file layouts and output table names. *)
Init ==
    InitWith({"task", "full", "nodesc"},
             SeqsUpTo({EventRec(1000, 7, "E1", "c")}, PipeRows),
             SeqsUpTo({EventRec(1005, 7, "E1", "s")}, PipeRows),
             SeqsUpTo({BanRec(7, "1970-01-01 00:08:20"),
                       BanRec(7, "1970-01-01 00:33:20")}, PipeRows),
             {Utc},
             {"task_table", "cheaters"})

Spec == Init /\ [][Next]_vars

(* SpecWindow: timestamps around the bounds of the day, in every zone. *)
WindowClientTimes == {-3600, -1, 0, 82800, 85000, 86400}
WindowServerTimes == {-1, 1005, 85000, 86400}

InitWindow ==
    InitWith({"task"},
             UNION {{[i \in 1..n |-> EventRec(f[i], 7, "E1", Numbered("c", i))] :
                       f \in [1..n -> WindowClientTimes]} : n \in 0..WindowRows},
             UNION {{[i \in 1..n |-> EventRec(f[i], 7, "E1", Numbered("s", i))] :
                       f \in [1..n -> WindowServerTimes]} :
                    n \in 0..WindowServerRows},
             {<<>>},
             {Utc, PlusOne, SpringForward, FallBack},
             {"task_table"})

SpecWindow == InitWindow /\ [][Next]_vars

(* SpecJoin: keys that repeat, and keys only one file has. *)
JoinKeys == {"E1", "E2", "E3"}

InitJoin ==
    InitWith({"task"},
             UNION {{[i \in 1..n |-> EventRec(1000, 7, f[i], Numbered("c", i))] :
                       f \in [1..n -> JoinKeys]} : n \in 0..JoinRows},
             UNION {{[i \in 1..n |-> EventRec(1005, 7, f[i], Numbered("s", i))] :
                       f \in [1..n -> JoinKeys]} : n \in 0..JoinRows},
             {<<>>},
             {Utc},
             {"task_table"})

SpecJoin == InitJoin /\ [][Next]_vars

(* SpecExclude: players with no, one or several bans, before, at and after
   the events; lines that repeat. *)
InitExclude ==
    InitWith({"task"},
             SeqsUpTo({EventRec(1000, p, "E1", "c") : p \in {7, 8}}, ExclRows),
             SeqsUpTo({EventRec(t, 7, "E1", "s") : t \in {1005, 2000}},
                      ExclServerRows),
             SeqsUpTo({BanRec(p, b) : p \in {7, 8}, b \in BanTimeTexts},
                      MaxBans),
             {Utc},
             {"task_table"})

SpecExclude == InitExclude /\ [][Next]_vars

----------------------------------------------------------------------------
(* Vocabulary of the properties. *)

Indices(df) == 1..Len(df.rows)

Contains(df, row) == \E i \in Indices(df) : df.rows[i] = row

(* The positions at which the named frame has been computed. *)
ClientLoaded == pc \in {"client", "server", "joined", "excluded", "projected", "done"}
ServerLoaded == pc \in {"server", "joined", "excluded", "projected", "done"}
Joined == pc \in {"joined", "excluded", "projected", "done"}
Excluded == pc \in {"excluded", "projected", "done"}

(* Local midnight of the target day and of the day after it. *)
DayStart == LocalTimestamp(args.date, tz)
DayEnd == LocalTimestamp(args.date + SecondsPerDay, tz)

InDay(t) == DayStart <= t /\ t < DayEnd
InDay86400(t) == DayStart <= t /\ t < DayStart + 86400

(* The ban table as the invocation found it, and a ban time in epoch seconds. *)
Bans == storeAtStart[args.cheaters_table].rows
BanEpoch(b) == PandasTimestamp(ToDatetime(b[args.time_column_table]))
BansOf(row) ==
    {j \in 1..Len(Bans) :
        Bans[j][args.exclude_column] = row[args.exclude_column]}
Excludable(row) ==
    \E j \in BansOf(row) : row[args.time_column_df] < BanEpoch(Bans[j])

Output == store[args.new_table]

----------------------------------------------------------------------------
(* C1, as stated: for every event row and EVERY ban row of its player, the
   event is removed by exclude_cheaters iff its time is before that ban's. *)
C1_Original ==
    Excluded =>
        \A i \in Indices(joined) : \A j \in BansOf(joined.rows[i]) :
            (~Contains(excluded, joined.rows[i]))
                <=> (joined.rows[i][args.time_column_df] < BanEpoch(Bans[j]))

(* C1, amended: an event row is removed by exclude_cheaters iff its time is
   strictly before the time of at least one ban row of its player; it is
   kept when its time is at or after every ban of its player, and always
   when its player has no ban row. In the scenario (server time 1005,
   player 7) the row is removed with the one ban at 2000 and kept with the
   one ban at 500. *)
C1_ExclusionStrictness ==
    Excluded =>
        /\ \A i \in Indices(joined) :
              (~Contains(excluded, joined.rows[i])) <=> Excludable(joined.rows[i])
        /\ \A i \in Indices(joined) :
              BansOf(joined.rows[i]) = {} => Contains(excluded, joined.rows[i])
        /\ \A i \in Indices(joined) :
              (/\ joined.rows[i]["timestamp_server"] = 1005
               /\ joined.rows[i]["player_id"] = 7
               /\ Len(Bans) = 1
               /\ Bans[1]["player_id"] = 7)
              => /\ BanEpoch(Bans[1]) = 2000 => ~Contains(excluded, joined.rows[i])
                 /\ BanEpoch(Bans[1]) = 500 => Contains(excluded, joined.rows[i])

(* C1 witness: a row was removed because of one ban of its player although
   another ban of the same player is not later than the row. *)
C1_Witness ==
    /\ pc = "excluded"
    /\ \E i \in Indices(joined) :
          /\ ~Contains(excluded, joined.rows[i])
          /\ \E j \in BansOf(joined.rows[i]) :
                joined.rows[i][args.time_column_df] >= BanEpoch(Bans[j])

(* C2: an event whose player has a ban is kept only if it happened strictly
   before the ban; events at or after a ban of their player are excluded. *)
C2_KeptOnlyBeforeBan ==
    Excluded =>
        \A i \in Indices(excluded) : \A j \in BansOf(excluded.rows[i]) :
            excluded.rows[i][args.time_column_df] < BanEpoch(Bans[j])

(* C3, as stated: a record of a source is returned iff
   day_start <= timestamp < day_start + 86400. *)
C3_Original ==
    /\ ClientLoaded =>
          \A i \in Indices(clientCsv) :
              Contains(clientDf, clientCsv.rows[i])
                  <=> InDay86400(clientCsv.rows[i]["timestamp"])
    /\ ServerLoaded =>
          \A i \in Indices(serverCsv) :
              Contains(serverDf, serverCsv.rows[i])
                  <=> InDay86400(serverCsv.rows[i]["timestamp"])

(* C3, amended: a record of a source is returned iff
   day_start <= timestamp < day_end, where day_start is the local midnight of
   the target day and day_end the local midnight of the next calendar day
   (day_start + 86400 only when the zone's UTC offset is the same at both);
   a record at day_start is returned, a record at day_end is not, nothing
   else is returned, and an empty result is no error. *)
C3_DayWindow ==
    /\ ClientLoaded =>
          /\ \A i \in Indices(clientCsv) :
                Contains(clientDf, clientCsv.rows[i])
                    <=> InDay(clientCsv.rows[i]["timestamp"])
          /\ \A i \in Indices(clientDf) : Contains(clientCsv, clientDf.rows[i])
          /\ clientDf.cols = clientCsv.cols
    /\ ServerLoaded =>
          /\ \A i \in Indices(serverCsv) :
                Contains(serverDf, serverCsv.rows[i])
                    <=> InDay(serverCsv.rows[i]["timestamp"])
          /\ \A i \in Indices(serverDf) : Contains(serverCsv, serverDf.rows[i])
          /\ serverDf.cols = serverCsv.cols
    /\ pc # "failed"

(* C3 witness: on a day the clocks go forward, the record at day_start was
   returned and the record at day_end was not. *)
C3_Witness ==
    /\ pc = "client"
    /\ DayEnd # DayStart + 86400
    /\ \E i \in Indices(clientCsv) :
          /\ clientCsv.rows[i]["timestamp"] = DayStart
          /\ Contains(clientDf, clientCsv.rows[i])
    /\ \E i \in Indices(clientCsv) :
          /\ clientCsv.rows[i]["timestamp"] = DayEnd
          /\ ~Contains(clientDf, clientCsv.rows[i])

(* C4: for every key value k the join holds exactly
   count_left(k) * count_right(k) rows of key k; a key that only one side
   has gives no row. *)
C4_JoinCorrectness ==
    Joined =>
        \A k \in JoinKeys :
            LET nl == Cardinality({i \in Indices(clientDf) :
                          clientDf.rows[i][args.join_column] = k})
                nr == Cardinality({i \in Indices(serverDf) :
                          serverDf.rows[i][args.join_column] = k})
                n == Cardinality({i \in Indices(joined) :
                          joined.rows[i][args.join_column] = k})
            IN  /\ n = nl * nr
                /\ (nl = 0 \/ nr = 0) => n = 0

(* C4 witness: a key that repeats on both sides gave four rows. *)
C4_Witness ==
    /\ pc = "joined"
    /\ Len(clientDf.rows) = 2
    /\ Len(serverDf.rows) = 2
    /\ Len(joined.rows) = 4

(* C5: a second run on the same files, the same ban table and the same
   command line leaves the output table as the first run left it; the write
   replaces and never accumulates. *)
C5_Idempotence ==
    (/\ pc = "done"
     /\ run >= 2
     /\ history[run - 1].ok
     /\ history[run - 1].before[args.cheaters_table]
            = storeAtStart[args.cheaters_table])
    => Output = history[run - 1].after[args.new_table]

(* C5 witness: a second run has written a table that has rows. *)
C5_Witness ==
    /\ pc = "done"
    /\ run = 2
    /\ history[1].ok
    /\ history[1].before[args.cheaters_table] = storeAtStart[args.cheaters_table]
    /\ Len(Output.rows) > 0

(* C6: after a successful run the output table has exactly the seven fields
   id, timestamp, player_id, event_id, error_id, json_server, json_client,
   its timestamp the server-side time of the joined record. *)
C6_SchemaCompleteness ==
    pc = "done" =>
        /\ Output.cols = CreatedCols
        /\ \A r \in Indices(Output) : \E i \in Indices(excluded) :
              Output.rows[r]["timestamp"] = excluded.rows[i]["timestamp_server"]

(* C7: the projection aborts the run, and nothing is written, when one of
   description_client, description_server, timestamp_server,
   timestamp_client is missing from the frame it is given. *)
C7_ProjectionFailsOnMissingField ==
    pc \in {"projected", "done"} =>
        {"description_client", "description_server", "timestamp_server",
         "timestamp_client"} \subseteq excluded.cols

(* C8: the ban table after a run is the ban table before it, whatever the
   command line. *)
C8_BanTableReadOnly ==
    pc = "done" =>
        store[args.cheaters_table] = storeAtStart[args.cheaters_table]

(* C9: the result of exclude_cheaters has the columns of its input, holds
   every non-excludable input row exactly as often as the input does, holds
   no excludable row and no row the input lacks; when no row is excludable
   it is the input. *)
C9_ExclusionPreservesRows ==
    Excluded =>
        /\ excluded.cols = joined.cols
        /\ \A i \in Indices(joined) :
              Count(excluded.rows, joined.rows[i])
                  = IF Excludable(joined.rows[i]) THEN 0
                    ELSE Count(joined.rows, joined.rows[i])
        /\ \A i \in Indices(excluded) : Contains(joined, excluded.rows[i])
        /\ (\A i \in Indices(joined) : ~Excludable(joined.rows[i]))
              => excluded = joined

(* C9 witness: a row the input holds twice, whose player has two bans, none
   of them later than the row, is held twice by the result. *)
C9_Witness ==
    /\ pc = "excluded"
    /\ \E i \in Indices(joined) :
          /\ Count(joined.rows, joined.rows[i]) = 2
          /\ Cardinality(BansOf(joined.rows[i])) = 2
          /\ ~Excludable(joined.rows[i])
          /\ Count(excluded.rows, joined.rows[i]) = 2

(* A written row is the pair of the i-th client record and the j-th server
   record. *)
FromPair(row, i, j) ==
    /\ row["json_client"] = clientCsv.rows[i]["description"]
    /\ row["json_server"] = serverCsv.rows[j]["description"]

(* C10, as stated: every written row comes from a client and a server record
   whose timestamps both lie in [day_start, day_start + 86400). *)
C10_Original ==
    pc = "done" =>
        \A r \in Indices(Output) :
            \E i \in Indices(clientCsv), j \in Indices(serverCsv) :
                /\ FromPair(Output.rows[r], i, j)
                /\ InDay86400(clientCsv.rows[i]["timestamp"])
                /\ InDay86400(serverCsv.rows[j]["timestamp"])

(* C10, amended: every written row comes from a client and a server record
   of equal error_id whose timestamps both lie in [day_start, day_end),
   day_end the local midnight of the next calendar day; a pair of which only
   one timestamp lies in that window is never written. *)
C10_BothInWindow ==
    pc = "done" =>
        /\ \A r \in Indices(Output) :
              \E i \in Indices(clientCsv), j \in Indices(serverCsv) :
                  /\ FromPair(Output.rows[r], i, j)
                  /\ clientCsv.rows[i]["error_id"] = serverCsv.rows[j]["error_id"]
                  /\ Output.rows[r]["error_id"] = serverCsv.rows[j]["error_id"]
                  /\ Output.rows[r]["timestamp"] = serverCsv.rows[j]["timestamp"]
                  /\ InDay(clientCsv.rows[i]["timestamp"])
                  /\ InDay(serverCsv.rows[j]["timestamp"])
        /\ \A i \in Indices(clientCsv), j \in Indices(serverCsv) :
              (InDay(clientCsv.rows[i]["timestamp"])
                  # InDay(serverCsv.rows[j]["timestamp"]))
              => \A r \in Indices(Output) : ~FromPair(Output.rows[r], i, j)

(* C10 witness: on a day the clocks go back a pair was written, and a pair
   whose client record is outside the window and whose server record is
   inside was not. *)
C10_Witness ==
    /\ pc = "done"
    /\ DayEnd # DayStart + 86400
    /\ Len(Output.rows) > 0
    /\ \E i \in Indices(clientCsv), j \in Indices(serverCsv) :
          /\ ~InDay(clientCsv.rows[i]["timestamp"])
          /\ InDay(serverCsv.rows[j]["timestamp"])

====
